---- MODULE Spec2Model ----
(***************************************************************************)
(* Model of m1fp/gpg-file-encryption/python/src/encryptor/file_encryptor.py *)
(* FileEncryptor (PBKDF2-HMAC-SHA256 key derivation, AES-256-CBC envelope   *)
(* with PKCS#7 padding) and its command line entry point main.              *)
(*                                                                          *)
(* Bytes are the integers 0..255, byte strings are sequences of bytes.      *)
(* A Python str is the sequence of its code points.  The absent value None  *)
(* and a file that does not exist are the one-element sequence <<-1>>, so   *)
(* that every value of the model is a sequence of integers.                 *)
(*                                                                          *)
(* The primitives of the `cryptography` package are not code of the         *)
(* repository.  They are modelled by stand-ins that keep what the package   *)
(* guarantees and the program relies on: PBKDF2HMAC.derive is a             *)
(* deterministic function of (password, salt, iterations, length); AES is a *)
(* keyed permutation of 16-byte blocks; CBC chains blocks with XOR; the     *)
(* Cipher constructor rejects an IV that is not one block long and          *)
(* finalize() rejects data that is not block aligned.                       *)
(***************************************************************************)
EXTENDS Integers, Sequences, FiniteSets, TLC

VARIABLES
    email,        \* email[self]: FileEncryptor.email of instance self
    passphrase,   \* passphrase[self]: FileEncryptor.passphrase of instance self
    fs,           \* the three files the calls work on: plain, enc, dec
    enc_call,     \* locals and outcome of the most recent encrypt_file call
    dec_call,     \* locals and outcome of the most recent decrypt_file call
    derived,      \* every (email, passphrase, key) _derive_key has returned so far
    pristine,     \* TRUE while fs.enc is exactly what encrypt_file wrote
    pc,           \* main: position in main()
    frame,        \* main: local variables of main() and its exit status
    flight_results,  \* select.py: the list of FlightResult records
    selected,        \* select.py: the list each of the three functions returned
    cur              \* currency_api.py: one run of main(argv)

encryptorVars ==
    <<email, passphrase, fs, enc_call, dec_call, derived, pristine, pc, frame>>
selectVars == <<flight_results, selected>>
currencyVars == <<cur>>
vars == <<encryptorVars, selectVars, currencyVars>>

(***************************************************************************)
(* Bounds of the model.                                                     *)
(***************************************************************************)
MaxLen == 17        \* plaintexts have 0..MaxLen bytes
MaxIVSeed == 2      \* number of distinct IVs the random source can return

(***************************************************************************)
(* Program constants.                                                       *)
(***************************************************************************)
BlockSize == 16     \* algorithms.AES.block_size // 8
IVLength == 16      \* secrets.token_bytes(16), f_in.read(16)
KeyLength == 32     \* PBKDF2HMAC(length=32)
Iterations == 65536 \* PBKDF2HMAC(iterations=65536)

None == <<-1>>
NoFile == <<-1>>

Max(a, b) == IF a >= b THEN a ELSE b

(***************************************************************************)
(* str.encode('utf-8') for code points below 2048.                          *)
(***************************************************************************)
Utf8Char(c) ==
    IF c < 128 THEN <<c>>
    ELSE <<192 + (c \div 64), 128 + (c % 64)>>

RECURSIVE encode(_)
encode(s) ==
    IF s = <<>> THEN <<>> ELSE Utf8Char(Head(s)) \o encode(Tail(s))

(***************************************************************************)
(* Stand-in for PBKDF2HMAC(SHA256, length, salt, iterations).derive(pw).    *)
(***************************************************************************)
RECURSIVE Absorb(_, _)
Absorb(bytes, h) ==
    IF bytes = <<>> THEN h
    ELSE Absorb(Tail(bytes), (h * h + 31 * h + 7 * Head(bytes) + 1) % 256)

PBKDF2HMAC(password, salt, iterations, length) ==
    [i \in 1..length |->
        (3 * Absorb(password, i) + Absorb(salt, (2 * i + 1) % 256)
           + (iterations % 251) + i) % 256]

(***************************************************************************)
(* Stand-in for AES-256: a keyed permutation of 16-byte blocks (a byte      *)
(* substitution x -> 5x + k mod 256 followed by a rotation of positions)    *)
(* and its inverse (205 is the inverse of 5 modulo 256).                    *)
(***************************************************************************)
RoundKey(key, i) == (key[i] + key[i + BlockSize]) % 256

AESEncryptBlock(key, block) ==
    [i \in 1..BlockSize |->
        LET j == (i % BlockSize) + 1
        IN  (5 * block[j] + RoundKey(key, j)) % 256]

AESDecryptBlock(key, block) ==
    [j \in 1..BlockSize |->
        LET i == ((j + BlockSize - 2) % BlockSize) + 1
        IN  (205 * ((block[i] - RoundKey(key, j)) % 256)) % 256]

RECURSIVE Xor(_, _)
Xor(a, b) ==
    IF a = 0 THEN b
    ELSE IF b = 0 THEN a
    ELSE ((a + b) % 2) + 2 * Xor(a \div 2, b \div 2)

XorBlock(x, y) == [i \in 1..BlockSize |-> Xor(x[i], y[i])]

(***************************************************************************)
(* modes.CBC: encryptor.update(data) + encryptor.finalize() and             *)
(* decryptor.update(data) + decryptor.finalize() on block aligned data.     *)
(***************************************************************************)
RECURSIVE CBCEncrypt(_, _, _)
CBCEncrypt(key, prev, data) ==
    IF data = <<>> THEN <<>>
    ELSE LET c == AESEncryptBlock(key, XorBlock(SubSeq(data, 1, BlockSize), prev))
         IN  c \o CBCEncrypt(key, c, SubSeq(data, BlockSize + 1, Len(data)))

RECURSIVE CBCDecrypt(_, _, _)
CBCDecrypt(key, prev, data) ==
    IF data = <<>> THEN <<>>
    ELSE LET c == SubSeq(data, 1, BlockSize)
         IN  XorBlock(AESDecryptBlock(key, c), prev)
                \o CBCDecrypt(key, c, SubSeq(data, BlockSize + 1, Len(data)))

(***************************************************************************)
(* FileEncryptor._derive_key.  Raises AttributeError when email or          *)
(* passphrase is None (None has no encode).                                 *)
(***************************************************************************)
\* faulty variant: an absent passphrase is taken for the empty one
DeriveRaisesEmailOnly(self) == email[self] = None

DeriveRaises(self) == email[self] = None \/ passphrase[self] = None

\* faulty variant: a salt that differs from one FileEncryptor instance to the next
DeriveKeyInstanceSalt(self) ==
    LET salt == encode(email[self]) \o <<self>>
    IN  PBKDF2HMAC(encode(passphrase[self]), salt, Iterations, KeyLength)

_derive_key(self) ==
    LET salt == encode(email[self])
    IN  PBKDF2HMAC(encode(passphrase[self]), salt, Iterations, KeyLength)

(***************************************************************************)
(* FileEncryptor._pad_data and FileEncryptor._unpad_data.                   *)
(***************************************************************************)
\* faulty variant: block aligned input is left without padding
PadSkipsAligned(data) ==
    LET block_size == BlockSize
        padding_length == (block_size - (Len(data) % block_size)) % block_size
        padding == [i \in 1..padding_length |-> padding_length]
    IN  data \o padding

\* faulty variant: bytes(padding_length), that many zero bytes, as the padding
PadWithZeros(data) ==
    LET block_size == BlockSize
        padding_length == block_size - (Len(data) % block_size)
        padding == [i \in 1..padding_length |-> 0]
    IN  data \o padding

_pad_data(data) ==
    LET block_size == BlockSize
        padding_length == block_size - (Len(data) % block_size)
        padding == [i \in 1..padding_length |-> padding_length]
    IN  data \o padding

\* data[-1] raises IndexError on an empty byte string
UnpadRaises(data) == data = <<>>

\* faulty variant: a full block of padding is taken for data and kept
UnpadKeepsFullBlock(data) ==
    LET padding_length == data[Len(data)]
    IN  IF padding_length = 0 THEN <<>>
        ELSE IF padding_length = BlockSize THEN data
        ELSE SubSeq(data, 1, Max(Len(data) - padding_length, 0))

\* data[:-padding_length]; data[:-0] is data[:0], the empty byte string
_unpad_data(data) ==
    LET padding_length == data[Len(data)]
    IN  IF padding_length = 0 THEN <<>>
        ELSE SubSeq(data, 1, Max(Len(data) - padding_length, 0))

(***************************************************************************)
(* Library checks the two methods run into.                                 *)
(***************************************************************************)
\* faulty variant: the size of the IV is not checked
CipherRaisesKeyOnly(key, iv) == Len(key) \notin {16, 24, 32}

\* Cipher(algorithms.AES(key), modes.CBC(iv)): ValueError on a bad key or IV size
CipherRaises(key, iv) == Len(key) \notin {16, 24, 32} \/ Len(iv) # BlockSize

\* finalize(): ValueError when the data is not a multiple of the block length
FinalizeRaises(data) == Len(data) % BlockSize # 0

\* f_in.read(16) and the f_in.read() that follows it
ReadIV(contents) ==
    SubSeq(contents, 1, IF Len(contents) < IVLength THEN Len(contents) ELSE IVLength)

\* faulty variant: the rest is read in whole blocks, a trailing partial block is dropped
ReadRestWholeBlocks(contents) ==
    LET n == Max(Len(contents) - IVLength, 0)
    IN  SubSeq(contents, IVLength + 1, IVLength + n - (n % BlockSize))

ReadRest(contents) == SubSeq(contents, IVLength + 1, Len(contents))

\* faulty variant: the two writes in the other order
EnvelopeCiphertextFirst(iv, encrypted_data) == encrypted_data \o iv

\* f_out.write(iv); f_out.write(encrypted_data)
EnvelopeBytes(iv, encrypted_data) == iv \o encrypted_data

(***************************************************************************)
(* The locals of one call.  A local that was never assigned, because the    *)
(* call had not started or an exception left the try block first, is None.  *)
(* written is what the call wrote to its output file, NoFile when it never  *)
(* opened it.                                                               *)
(***************************************************************************)
NoEncCall ==
    [status |-> "none", cause |-> "", self |-> 0, key |-> None, iv |-> None,
     file_data |-> None, padded_data |-> None, encrypted_data |-> None,
     written |-> NoFile]

NoDecCall ==
    [status |-> "none", cause |-> "", self |-> 0, key |-> None, input |-> None,
     iv |-> None, encrypted_data |-> None, decrypted_data |-> None,
     unpadded_data |-> None, written |-> NoFile]

\* faulty variant: the IV of the previous call is kept and used again
EncryptCallReusesIV(self, input, drawn) ==
    LET c0 == [NoEncCall EXCEPT !.self = self]
        iv == IF enc_call.iv # None THEN enc_call.iv ELSE drawn
    IN  IF DeriveRaises(self)
        THEN [c0 EXCEPT !.status = "raised", !.cause = "AttributeError"]
        ELSE
        LET key == _derive_key(self)
            c1 == [c0 EXCEPT !.key = key, !.iv = iv]
        IN  IF CipherRaises(key, iv)
            THEN [c1 EXCEPT !.status = "raised", !.cause = "ValueError"]
            ELSE IF input = NoFile
            THEN [c1 EXCEPT !.status = "raised", !.cause = "FileNotFoundError"]
            ELSE
            LET file_data == input
                padded_data == _pad_data(file_data)
                c2 == [c1 EXCEPT !.file_data = file_data,
                                 !.padded_data = padded_data]
            IN  IF FinalizeRaises(padded_data)
                THEN [c2 EXCEPT !.status = "raised", !.cause = "ValueError"]
                ELSE
                LET encrypted_data == CBCEncrypt(key, iv, padded_data)
                IN  [c2 EXCEPT !.encrypted_data = encrypted_data,
                               !.written = EnvelopeBytes(iv, encrypted_data),
                               !.status = "ok"]

(***************************************************************************)
(* FileEncryptor.encrypt_file(input_file, output_file) run by instance self *)
(* on the input file contents `input` with the IV the random source gave.   *)
(* Any exception inside the try block is re-raised as                       *)
(* Exception("Encryption failed: ...") with status "raised".                *)
(***************************************************************************)
EncryptCall(self, input, iv) ==
    LET c0 == [NoEncCall EXCEPT !.self = self]
    IN  IF DeriveRaises(self)
        THEN [c0 EXCEPT !.status = "raised", !.cause = "AttributeError"]
        ELSE
        LET key == _derive_key(self)
            c1 == [c0 EXCEPT !.key = key, !.iv = iv]
        IN  IF CipherRaises(key, iv)
            THEN [c1 EXCEPT !.status = "raised", !.cause = "ValueError"]
            ELSE IF input = NoFile
            THEN [c1 EXCEPT !.status = "raised", !.cause = "FileNotFoundError"]
            ELSE
            LET file_data == input
                padded_data == _pad_data(file_data)
                c2 == [c1 EXCEPT !.file_data = file_data,
                                 !.padded_data = padded_data]
            IN  IF FinalizeRaises(padded_data)
                THEN [c2 EXCEPT !.status = "raised", !.cause = "ValueError"]
                ELSE
                LET encrypted_data == CBCEncrypt(key, iv, padded_data)
                IN  [c2 EXCEPT !.encrypted_data = encrypted_data,
                               !.written = EnvelopeBytes(iv, encrypted_data),
                               !.status = "ok"]

\* faulty variant: empty decrypted data is taken as an empty plaintext
DecryptCallAcceptsIVOnly(self, input) ==
    LET c0 == [NoDecCall EXCEPT !.self = self]
    IN  IF DeriveRaises(self)
        THEN [c0 EXCEPT !.status = "raised", !.cause = "AttributeError"]
        ELSE
        LET key == _derive_key(self)
            c1 == [c0 EXCEPT !.key = key]
        IN  IF input = NoFile
            THEN [c1 EXCEPT !.status = "raised", !.cause = "FileNotFoundError"]
            ELSE
            LET iv == ReadIV(input)
                encrypted_data == ReadRest(input)
                c2 == [c1 EXCEPT !.input = input, !.iv = iv,
                                 !.encrypted_data = encrypted_data]
            IN  IF CipherRaises(key, iv) \/ FinalizeRaises(encrypted_data)
                THEN [c2 EXCEPT !.status = "raised", !.cause = "ValueError"]
                ELSE
                LET decrypted_data == CBCDecrypt(key, iv, encrypted_data)
                    c3 == [c2 EXCEPT !.decrypted_data = decrypted_data]
                    unpadded_data == IF UnpadRaises(decrypted_data) THEN <<>>
                                     ELSE _unpad_data(decrypted_data)
                IN  [c3 EXCEPT !.unpadded_data = unpadded_data,
                               !.written = unpadded_data,
                               !.status = "ok"]

\* faulty variant: the key of the previous decrypt_file call is kept and reused
DecryptCallCachesKey(self, input) ==
    LET c0 == [NoDecCall EXCEPT !.self = self]
    IN  IF DeriveRaises(self)
        THEN [c0 EXCEPT !.status = "raised", !.cause = "AttributeError"]
        ELSE
        LET key == IF dec_call.key # None THEN dec_call.key
                   ELSE _derive_key(self)
            c1 == [c0 EXCEPT !.key = key]
        IN  IF input = NoFile
            THEN [c1 EXCEPT !.status = "raised", !.cause = "FileNotFoundError"]
            ELSE
            LET iv == ReadIV(input)
                encrypted_data == ReadRest(input)
                c2 == [c1 EXCEPT !.input = input, !.iv = iv,
                                 !.encrypted_data = encrypted_data]
            IN  IF CipherRaises(key, iv) \/ FinalizeRaises(encrypted_data)
                THEN [c2 EXCEPT !.status = "raised", !.cause = "ValueError"]
                ELSE
                LET decrypted_data == CBCDecrypt(key, iv, encrypted_data)
                    c3 == [c2 EXCEPT !.decrypted_data = decrypted_data]
                IN  IF UnpadRaises(decrypted_data)
                    THEN [c3 EXCEPT !.status = "raised", !.cause = "IndexError"]
                    ELSE
                    LET unpadded_data == _unpad_data(decrypted_data)
                    IN  [c3 EXCEPT !.unpadded_data = unpadded_data,
                                   !.written = unpadded_data,
                                   !.status = "ok"]

(***************************************************************************)
(* FileEncryptor.decrypt_file(input_file, output_file) run by instance self *)
(* on the input file contents `input`.                                      *)
(***************************************************************************)
DecryptCall(self, input) ==
    LET c0 == [NoDecCall EXCEPT !.self = self]
    IN  IF DeriveRaises(self)
        THEN [c0 EXCEPT !.status = "raised", !.cause = "AttributeError"]
        ELSE
        LET key == _derive_key(self)
            c1 == [c0 EXCEPT !.key = key]
        IN  IF input = NoFile
            THEN [c1 EXCEPT !.status = "raised", !.cause = "FileNotFoundError"]
            ELSE
            LET iv == ReadIV(input)
                encrypted_data == ReadRest(input)
                c2 == [c1 EXCEPT !.input = input, !.iv = iv,
                                 !.encrypted_data = encrypted_data]
            IN  IF CipherRaises(key, iv) \/ FinalizeRaises(encrypted_data)
                THEN [c2 EXCEPT !.status = "raised", !.cause = "ValueError"]
                ELSE
                LET decrypted_data == CBCDecrypt(key, iv, encrypted_data)
                    c3 == [c2 EXCEPT !.decrypted_data = decrypted_data]
                IN  IF UnpadRaises(decrypted_data)
                    THEN [c3 EXCEPT !.status = "raised", !.cause = "IndexError"]
                    ELSE
                    LET unpadded_data == _unpad_data(decrypted_data)
                    IN  [c3 EXCEPT !.unpadded_data = unpadded_data,
                                   !.written = unpadded_data,
                                   !.status = "ok"]

\* the derivations a call adds to the history: one, unless _derive_key raised
Derivations(self, key) ==
    IF key = None THEN {} ELSE {<<email[self], passphrase[self], key>>}

(***************************************************************************)
(* Inputs.                                                                  *)
(***************************************************************************)
Inst == {1, 2}

\* "u@x" and "é" (the second encodes to two bytes)
IdentityA == <<117, 64, 120>>
IdentityB == <<233>>
Identities == {IdentityA, IdentityB}
\* "pw" and "w"
SecretA == <<112, 119>>
SecretB == <<119>>
Secrets == {SecretA, SecretB}

FillBytes == {0, 250}
MkPlain(n, f) == [i \in 1..n |-> (f + i) % 256]
Plaintexts == {MkPlain(n, f) : n \in 0..MaxLen, f \in FillBytes}

MkIV(s) == [i \in 1..IVLength |-> (37 * s + 11 * i) % 256]
IVs == {MkIV(s) : s \in 1..MaxIVSeed}

(***************************************************************************)
(* encrypt_file("plain", "enc") and decrypt_file("enc", "dec") run by       *)
(* instance self: the effect on the files and the record of the call.       *)
(***************************************************************************)
encrypt_file(self) ==
    \E iv \in IVs :
        \E r \in {EncryptCall(self, fs.plain, iv)} :
            /\ enc_call' = r
            /\ fs' = IF r.status = "ok" THEN [fs EXCEPT !.enc = r.written] ELSE fs
            /\ pristine' = IF r.status = "ok" THEN TRUE ELSE pristine
            /\ derived' = derived \cup Derivations(self, r.key)
            /\ UNCHANGED <<email, passphrase, dec_call, selectVars, currencyVars>>

\* faulty variant: the output file is opened for writing before the result is
\* computed, so a failing call leaves an empty output file
DecryptFileOpensOutputFirst(self) ==
    \E r \in {DecryptCall(self, fs.enc)} :
        /\ dec_call' = r
        /\ fs' = [fs EXCEPT !.dec = IF r.status = "ok" THEN r.written ELSE <<>>]
        /\ derived' = derived \cup Derivations(self, r.key)
        /\ UNCHANGED <<email, passphrase, enc_call, pristine, selectVars,
                     currencyVars>>

decrypt_file(self) ==
    \E r \in {DecryptCall(self, fs.enc)} :
        /\ dec_call' = r
        /\ fs' = IF r.status = "ok" THEN [fs EXCEPT !.dec = r.written] ELSE fs
        /\ derived' = derived \cup Derivations(self, r.key)
        /\ UNCHANGED <<email, passphrase, enc_call, pristine, selectVars,
                     currencyVars>>

\* a caller other than main() runs one of the two methods
Encrypt(self) == encrypt_file(self) /\ UNCHANGED <<pc, frame>>
Decrypt(self) == decrypt_file(self) /\ UNCHANGED <<pc, frame>>

\* select.py and currency_api.py are separate programs: while the encryptor
\* runs they hold nothing
NotSelected == [quadratic |-> None, map |-> None, sort_sweep |-> None]
NoDecimal == [kind |-> "none", sign |-> 0, coeff |-> 0, exp |-> 0]
NoException == [type |-> "", msg |-> "", arg |-> None]
NoOutcome == [kind |-> "none", status |-> 0, body |-> "none"]
NoRun == [pc |-> "idle", argv |-> <<>>, amount |-> NoDecimal,
          converted |-> NoDecimal, outcome |-> NoOutcome,
          exception |-> NoException, printed |-> "", exit |-> -1]
OtherProgramsIdle ==
    /\ flight_results = <<>>
    /\ selected = NotSelected
    /\ cur = NoRun

NoFrame == [operation |-> "", email |-> None, passphrase |-> None,
            encryptor |-> 0, exit |-> -1]

\* nothing has been called yet and only the plaintext file exists
Fresh ==
    /\ \E p \in Plaintexts : fs = [plain |-> p, enc |-> NoFile, dec |-> NoFile]
    /\ enc_call = NoEncCall
    /\ dec_call = NoDecCall
    /\ derived = {}
    /\ pristine = FALSE
    /\ OtherProgramsIdle

(***************************************************************************)
(* Spec: two constructed instances.  Instance 1 holds (IdentityA, SecretA), *)
(* instance 2 any identity and secret, so that the two agree, differ in the *)
(* secret only, in the identity only, or in both.                           *)
(***************************************************************************)
Init ==
    /\ email \in [Inst -> Identities]
    /\ passphrase \in [Inst -> Secrets]
    /\ email[1] = IdentityA
    /\ passphrase[1] = SecretA
    /\ Fresh
    /\ pc = "idle"
    /\ frame = NoFrame

Next ==
    \/ \E self \in Inst : Encrypt(self)
    \/ \E self \in Inst : Decrypt(self)

Spec == Init /\ [][Next]_vars

SameCredentials(a, b) == email[a] = email[b] /\ passphrase[a] = passphrase[b]

\* the latest decrypt_file read exactly what the latest encrypt_file wrote
DecryptedTheEnvelope ==
    /\ enc_call.status = "ok"
    /\ dec_call.status # "none"
    /\ dec_call.input = enc_call.written

(***************************************************************************)
(* C1: round trip.  Whenever the most recent decrypt_file read exactly the  *)
(* envelope that the most recent encrypt_file wrote, and the two instances  *)
(* hold the same email and passphrase, decrypt_file succeeded and wrote     *)
(* exactly the plaintext encrypt_file had read.                             *)
(***************************************************************************)
RoundTrip ==
    (DecryptedTheEnvelope /\ SameCredentials(enc_call.self, dec_call.self)) =>
        /\ dec_call.status = "ok"
        /\ dec_call.written = enc_call.file_data
        /\ fs.dec = enc_call.file_data

\* a 16-byte plaintext went from one instance through the envelope to another
RoundTripWitness ==
    /\ DecryptedTheEnvelope
    /\ SameCredentials(enc_call.self, dec_call.self)
    /\ enc_call.self # dec_call.self
    /\ Len(enc_call.file_data) = BlockSize
    /\ fs.dec = fs.plain

(***************************************************************************)
(* C2: envelope shape.  The envelope encrypt_file wrote for a plaintext of  *)
(* n bytes has 16 + 16 * (n div 16 + 1) bytes, so at least 32, and what     *)
(* follows its first 16 bytes is a whole number of blocks.                  *)
(***************************************************************************)
EnvelopeShape ==
    enc_call.status = "ok" =>
        LET n == Len(enc_call.file_data)
            e == enc_call.written
        IN  /\ Len(e) = 16 + 16 * ((n \div 16) + 1)
            /\ Len(e) >= 32
            /\ (Len(e) - 16) % 16 = 0
            /\ pristine => fs.enc = e

\* a 16-byte plaintext gave a 48-byte envelope
EnvelopeShapeWitness ==
    /\ enc_call.status = "ok"
    /\ Len(enc_call.file_data) = 16
    /\ Len(fs.enc) = 48

(***************************************************************************)
(* C3: PKCS#7 padding rule.  For input of length n with k = n mod 16,       *)
(* _pad_data returned the input followed by exactly 16 - k bytes, each of   *)
(* value 16 - k; between 1 and 16 bytes are added, 16 when k = 0.           *)
(***************************************************************************)
PaddingRule ==
    enc_call.padded_data # None =>
        LET data == enc_call.file_data
            padded == enc_call.padded_data
            k == Len(data) % 16
        IN  /\ Len(padded) = Len(data) + (16 - k)
            /\ (16 - k) \in 1..16
            /\ SubSeq(padded, 1, Len(data)) = data
            /\ \A i \in (Len(data) + 1)..Len(padded) : padded[i] = 16 - k
            /\ Len(padded) % 16 = 0

\* the empty input was padded to one block of sixteen bytes of value 16
PaddingRuleWitness ==
    /\ enc_call.file_data = <<>>
    /\ enc_call.padded_data = [i \in 1..16 |-> 16]

Min(a, b) == IF a <= b THEN a ELSE b

(***************************************************************************)
(* C4: envelope layout.  What encrypt_file wrote is the 16-byte IV it gave  *)
(* to the cipher followed by the ciphertext and nothing else (decrypting    *)
(* what follows the first 16 bytes with those 16 bytes as IV gives back the *)
(* padded plaintext); decrypt_file took the first 16 bytes of its input (all*)
(* of it when shorter) as IV and all remaining bytes as ciphertext.         *)
(***************************************************************************)
EnvelopeLayout ==
    /\ enc_call.status = "ok" =>
        LET e == enc_call.written
        IN  /\ Len(enc_call.iv) = 16
            /\ SubSeq(e, 1, 16) = enc_call.iv
            /\ SubSeq(e, 17, Len(e)) = enc_call.encrypted_data
            /\ CBCDecrypt(enc_call.key, SubSeq(e, 1, 16), SubSeq(e, 17, Len(e)))
                  = enc_call.padded_data
    /\ dec_call.input # None =>
        LET e == dec_call.input
        IN  /\ dec_call.iv = SubSeq(e, 1, Min(16, Len(e)))
            /\ dec_call.encrypted_data = SubSeq(e, 17, Len(e))

\* an envelope of two ciphertext blocks was written and read back
EnvelopeLayoutWitness ==
    /\ DecryptedTheEnvelope
    /\ Len(enc_call.encrypted_data) = 32
    /\ dec_call.iv = enc_call.iv
    /\ dec_call.encrypted_data = enc_call.encrypted_data

WrongSecret(a, b) == email[a] = email[b] /\ passphrase[a] # passphrase[b]

(***************************************************************************)
(* C7: wrong-key failure.  decrypt_file of the envelope encrypt_file wrote, *)
(* run by an instance with the same email and another passphrase, raises    *)
(* and writes nothing.                                                      *)
(***************************************************************************)
WrongKeyFails ==
    (DecryptedTheEnvelope /\ WrongSecret(enc_call.self, dec_call.self)) =>
        /\ dec_call.status = "raised"
        /\ dec_call.written = NoFile

(***************************************************************************)
(* C9: key derivation is deterministic.  Every key _derive_key returned has *)
(* 32 bytes, and any two derivations from the same email and passphrase,    *)
(* by whichever instance and after whatever earlier calls, returned the     *)
(* same key.                                                                *)
(***************************************************************************)
DeriveDeterministic ==
    \A a \in derived :
        /\ Len(a[3]) = 32
        /\ \A b \in derived : (a[1] = b[1] /\ a[2] = b[2]) => a[3] = b[3]

\* both instances hold the same email and passphrase and both have derived
DeriveDeterministicWitness ==
    /\ SameCredentials(1, 2)
    /\ enc_call.self # dec_call.self
    /\ enc_call.key # None
    /\ dec_call.key # None
    /\ enc_call.key = dec_call.key

(***************************************************************************)
(* SpecTamper: the envelope is damaged between encryption and decryption.   *)
(* Both instances hold (IdentityA, SecretA); instance 1 is the sender and   *)
(* instance 2 the receiver.  The sender encrypts the plaintext once; then   *)
(* the envelope file, while it still is what encrypt_file wrote, has one    *)
(* byte of its final ciphertext block changed or is cut short; the receiver *)
(* may run decrypt_file at any time.                                        *)
(***************************************************************************)
TamperMasks == {1, 255}

\* the envelope e with the byte at position pos replaced by b
TamperAt(e, pos, b) == [e EXCEPT ![pos] = b]

FinalBlock(e) == (Len(e) - BlockSize + 1)..Len(e)

EncryptOnce(self) ==
    /\ fs.enc = NoFile
    /\ Encrypt(self)

Tamper ==
    /\ pristine
    /\ \E pos \in FinalBlock(fs.enc), mask \in TamperMasks :
          fs' = [fs EXCEPT !.enc = TamperAt(fs.enc, pos, Xor(fs.enc[pos], mask))]
    /\ pristine' = FALSE
    /\ UNCHANGED <<email, passphrase, enc_call, dec_call, derived, pc, frame,
                 selectVars, currencyVars>>

Truncate ==
    /\ pristine
    /\ \E n \in 0..(Len(fs.enc) - 1) :
          fs' = [fs EXCEPT !.enc = SubSeq(fs.enc, 1, n)]
    /\ pristine' = FALSE
    /\ UNCHANGED <<email, passphrase, enc_call, dec_call, derived, pc, frame,
                 selectVars, currencyVars>>

InitTamper ==
    /\ email = [self \in Inst |-> IdentityA]
    /\ passphrase = [self \in Inst |-> SecretA]
    /\ Fresh
    /\ pc = "idle"
    /\ frame = NoFrame

NextTamper ==
    \/ EncryptOnce(1)
    \/ Decrypt(2)
    \/ Tamper
    \/ Truncate

SpecTamper == InitTamper /\ [][NextTamper]_vars

ValidPadding(d) ==
    LET p == d[Len(d)]
    IN  /\ p \in 1..16
        /\ p <= Len(d)
        /\ \A i \in (Len(d) - p + 1)..Len(d) : d[i] = p

InvalidPaddingCase ==
    /\ dec_call.decrypted_data # None
    /\ dec_call.decrypted_data # <<>>
    /\ ~ValidPadding(dec_call.decrypted_data)

(***************************************************************************)
(* C5: padding validation on decrypt.  When the decrypted, still padded     *)
(* plaintext does not end in valid PKCS#7 padding (its last byte p is not   *)
(* in 1..16, or its last p bytes are not all p), decrypt_file raises and    *)
(* writes no plaintext.                                                     *)
(***************************************************************************)
PaddingValidated ==
    InvalidPaddingCase =>
        /\ dec_call.status = "raised"
        /\ dec_call.written = NoFile

Malformed(e) == Len(e) < 16 \/ (Len(e) - 16) % 16 # 0

(***************************************************************************)
(* C6: malformed envelope.  A decrypt_file call whose input envelope is     *)
(* shorter than 16 bytes, or whose length minus 16 is not a multiple of 16, *)
(* raises (a ValueError of the cipher, wrapped) and leaves the output file  *)
(* as it was.                                                               *)
(***************************************************************************)
MalformedRejected ==
    [][(fs.enc # NoFile /\ Malformed(fs.enc) /\ dec_call' # dec_call) =>
          /\ dec_call'.input = fs.enc
          /\ dec_call'.status = "raised"
          /\ dec_call'.cause = "ValueError"
          /\ dec_call'.written = NoFile
          /\ fs' = fs]_vars

\* an unaligned envelope was rejected and the output of an earlier,
\* successful decryption is still in place
MalformedRejectedWitness ==
    /\ dec_call.status = "raised"
    /\ dec_call.input # None
    /\ Len(dec_call.input) > 16
    /\ Malformed(dec_call.input)
    /\ fs.enc = dec_call.input
    /\ fs.dec = fs.plain
    /\ fs.dec # <<>>

ByteChanges(e) == {c \in FinalBlock(e) \X (0..255) : e[c[1]] # c[2]}

DetectedChanges(self, e) ==
    {c \in ByteChanges(e) :
        DecryptCall(self, TamperAt(e, c[1], c[2])).status = "raised"}

(***************************************************************************)
(* C8: tamper detection.  Of all the ways to change one byte inside the     *)
(* final ciphertext block of the envelope encrypt_file wrote, more than     *)
(* half make decrypt_file raise.                                            *)
(***************************************************************************)
TamperDetectedInMajority ==
    pristine =>
        2 * Cardinality(DetectedChanges(2, fs.enc))
            > Cardinality(ByteChanges(fs.enc))

(***************************************************************************)
(* SpecMain: one run of main(argv).  pc is the position in main, frame its  *)
(* local variables (None: not bound) and the exit status of the process.    *)
(* The FileEncryptor main constructs is instance MainInst; its attributes   *)
(* exist from the constructor call until main's frame is dropped.           *)
(***************************************************************************)
MainInst == 1

\* a file of two blocks that is already at the envelope's path
StrayEnvelope == MkPlain(2 * BlockSize, 7)

\* operation, email, input_file, output_file = parse_args(argv)
ParseArgs ==
    /\ pc = "parse"
    /\ \/ \E op \in {"encrypt", "decrypt"}, e \in Identities :
            /\ frame' = [frame EXCEPT !.operation = op, !.email = e]
            /\ pc' = "getpass"
       \/ \* argparse rejects argv: SystemExit(2) is re-raised
          /\ frame' = [frame EXCEPT !.exit = 2]
          /\ pc' = "exited"
    /\ UNCHANGED <<email, passphrase, fs, enc_call, dec_call, derived, pristine,
                 selectVars, currencyVars>>

\* passphrase = getpass.getpass(...)
GetPass ==
    /\ pc = "getpass"
    /\ \E s \in Secrets : frame' = [frame EXCEPT !.passphrase = s]
    /\ pc' = "construct"
    /\ UNCHANGED <<email, passphrase, fs, enc_call, dec_call, derived, pristine,
                 selectVars, currencyVars>>

\* encryptor = FileEncryptor(email, passphrase): __init__ stores both
Construct ==
    /\ pc = "construct"
    /\ email' = [email EXCEPT ![MainInst] = frame.email]
    /\ passphrase' = [passphrase EXCEPT ![MainInst] = frame.passphrase]
    /\ frame' = [frame EXCEPT !.encryptor = MainInst]
    /\ pc' = "run"
    /\ UNCHANGED <<fs, enc_call, dec_call, derived, pristine, selectVars,
                 currencyVars>>

\* the method call inside try; an exception prints and calls sys.exit(1)
RunOperation ==
    /\ pc = "run"
    /\ \/ /\ frame.operation = "encrypt"
          /\ encrypt_file(frame.encryptor)
          /\ frame' = [frame EXCEPT
                         !.exit = IF enc_call'.status = "ok" THEN 0 ELSE 1]
       \/ /\ frame.operation = "decrypt"
          /\ decrypt_file(frame.encryptor)
          /\ frame' = [frame EXCEPT
                         !.exit = IF dec_call'.status = "ok" THEN 0 ELSE 1]
    /\ pc' = "finally"

\* finally: del passphrase (unbinds the local name, on every path)
Cleanup ==
    /\ pc = "finally"
    /\ frame' = [frame EXCEPT !.passphrase = None]
    /\ pc' = "cleaned"
    /\ UNCHANGED <<email, passphrase, fs, enc_call, dec_call, derived, pristine,
                 selectVars, currencyVars>>

\* main returns or SystemExit leaves it: the frame and the encryptor go
Return ==
    /\ pc = "cleaned"
    /\ frame' = [frame EXCEPT !.email = None, !.encryptor = 0]
    /\ email' = [email EXCEPT ![MainInst] = None]
    /\ passphrase' = [passphrase EXCEPT ![MainInst] = None]
    /\ pc' = "exited"
    /\ UNCHANGED <<fs, enc_call, dec_call, derived, pristine, selectVars,
                 currencyVars>>

InitMain ==
    /\ email = [self \in Inst |-> None]
    /\ passphrase = [self \in Inst |-> None]
    /\ \E p \in Plaintexts, e \in {NoFile, StrayEnvelope} :
          fs = [plain |-> p, enc |-> e, dec |-> NoFile]
    /\ enc_call = NoEncCall
    /\ dec_call = NoDecCall
    /\ derived = {}
    /\ pristine = FALSE
    /\ OtherProgramsIdle
    /\ pc = "parse"
    /\ frame = NoFrame

NextMain ==
    \/ ParseArgs
    \/ GetPass
    \/ Construct
    \/ RunOperation
    \/ Cleanup
    \/ Return

SpecMain == InitMain /\ [][NextMain]_vars

PassphraseHolders ==
    (IF frame.passphrase # None THEN {"main.passphrase"} ELSE {})
      \cup (IF frame.encryptor # 0 /\ passphrase[frame.encryptor] # None
            THEN {"encryptor.passphrase"} ELSE {})

(***************************************************************************)
(* C10: secret lifetime.  Once key derivation has completed, and in any     *)
(* case once main's cleanup has run, nothing the program can still reach    *)
(* holds the passphrase: neither main's local name nor the attribute of the *)
(* FileEncryptor that main still refers to.                                 *)
(***************************************************************************)
SecretScrubbed ==
    (derived # {} \/ pc = "cleaned") => PassphraseHolders = {}

\* the first 16 bytes of a file
Prefix(e) == SubSeq(e, 1, Min(IVLength, Len(e)))

\* a step in which encrypt_file ran to its end and wrote an envelope
EncryptedStep == enc_call' # enc_call /\ enc_call'.status = "ok"

(***************************************************************************)
(* C11 as stated: no IV is ever reused.  The envelope an encrypt_file call  *)
(* writes never starts with the 16 bytes the envelope of the call before it *)
(* started with.                                                            *)
(***************************************************************************)
IVNeverReused ==
    [][(enc_call.status = "ok" /\ EncryptedStep) =>
          Prefix(fs'.enc) # Prefix(fs.enc)]_vars

(***************************************************************************)
(* C11, amended: fresh IV.  Every encrypt_file call draws its own 16-byte   *)
(* IV from the random source, whatever earlier calls did: in every state,   *)
(* for each instance and each value the source can return, an encrypt_file  *)
(* call that draws that value writes an envelope that starts with it and    *)
(* was encrypted with it.  Two envelopes start differently exactly when the *)
(* two draws differ; nothing keeps the source from repeating a value.       *)
(***************************************************************************)
FreshIV ==
    \A self \in Inst, iv \in IVs :
        \E r \in {EncryptCall(self, fs.plain, iv)} :
            /\ r.status = "ok"
            /\ r.iv = iv
            /\ Len(iv) = 16
            /\ Prefix(r.written) = iv
            /\ r.encrypted_data = CBCEncrypt(r.key, iv, r.padded_data)

\* the same plaintext was encrypted twice under the same key, the first
\* envelope (read by decrypt_file in between) and the second start differently
FreshIVWitness ==
    /\ enc_call.status = "ok"
    /\ dec_call.status = "ok"
    /\ dec_call.key = enc_call.key
    /\ dec_call.written = enc_call.file_data
    /\ Len(enc_call.file_data) > 0
    /\ dec_call.iv # enc_call.iv
    /\ Prefix(fs.enc) = enc_call.iv

(***************************************************************************)
(* SpecFail: calls that fail.  Instance 1 holds (IdentityA, SecretA);       *)
(* instance 2 was constructed with the same values or with None for the     *)
(* email, the passphrase or both.  The input file of encrypt_file may be    *)
(* missing, and the envelope encrypt_file wrote may be cut short before     *)
(* decrypt_file reads it (to nothing, inside the IV, to the IV alone, or by *)
(* its last byte).                                                          *)
(***************************************************************************)
EdgePlaintexts == {p \in Plaintexts : Len(p) = 0 \/ Len(p) >= MaxLen - 1}

CutLengths(e) == {0, IVLength - 1, IVLength, Len(e) - 1}

Cut ==
    /\ pristine
    /\ \E n \in CutLengths(fs.enc) :
          fs' = [fs EXCEPT !.enc = SubSeq(fs.enc, 1, n)]
    /\ pristine' = FALSE
    /\ UNCHANGED <<email, passphrase, enc_call, dec_call, derived, pc, frame,
                 selectVars, currencyVars>>

InitFail ==
    /\ email \in [Inst -> {IdentityA, None}]
    /\ passphrase \in [Inst -> {SecretA, None}]
    /\ email[1] = IdentityA
    /\ passphrase[1] = SecretA
    /\ \E p \in EdgePlaintexts \cup {NoFile} :
          fs = [plain |-> p, enc |-> NoFile, dec |-> NoFile]
    /\ enc_call = NoEncCall
    /\ dec_call = NoDecCall
    /\ derived = {}
    /\ pristine = FALSE
    /\ OtherProgramsIdle
    /\ pc = "idle"
    /\ frame = NoFrame

NextFail ==
    \/ \E self \in Inst : Encrypt(self)
    \/ \E self \in Inst : Decrypt(self)
    \/ Cut

SpecFail == InitFail /\ [][NextFail]_vars

\* instance self was constructed with None for its email or its passphrase
Absent(self) == email[self] = None \/ passphrase[self] = None

\* a step in which instance self ran encrypt_file / decrypt_file
EncryptStepOf(self) == enc_call' # enc_call /\ enc_call'.self = self
DecryptStepOf(self) == dec_call' # dec_call /\ dec_call'.self = self

(***************************************************************************)
(* C12: missing input at derivation.  An instance constructed with None for *)
(* its email or passphrase exists (the constructor did not fail); every     *)
(* encrypt_file or decrypt_file call it runs raises at key derivation       *)
(* (AttributeError, wrapped), derives no key and leaves every file as it    *)
(* was.                                                                     *)
(***************************************************************************)
AbsentRejected ==
    [][\A self \in Inst :
          /\ (Absent(self) /\ EncryptStepOf(self)) =>
                /\ enc_call'.status = "raised"
                /\ enc_call'.cause = "AttributeError"
                /\ enc_call'.key = None
                /\ enc_call'.written = NoFile
                /\ fs' = fs
                /\ derived' = derived
          /\ (Absent(self) /\ DecryptStepOf(self)) =>
                /\ dec_call'.status = "raised"
                /\ dec_call'.cause = "AttributeError"
                /\ dec_call'.key = None
                /\ dec_call'.written = NoFile
                /\ fs' = fs
                /\ derived' = derived]_vars

\* an instance with an email and no passphrase failed to decrypt an envelope
\* that is in place; there is no output file
AbsentRejectedWitness ==
    /\ dec_call.status = "raised"
    /\ dec_call.cause = "AttributeError"
    /\ email[dec_call.self] # None
    /\ passphrase[dec_call.self] = None
    /\ enc_call.status = "ok"
    /\ fs.enc = enc_call.written
    /\ fs.dec = NoFile

\* the exception the first failing step of decrypt_file raises for instance
\* self and input file e, "" when no step fails
DecryptFailure(self, e) ==
    IF Absent(self) THEN "AttributeError"
    ELSE IF e = NoFile THEN "FileNotFoundError"
    ELSE IF Len(e) < 16 \/ (Len(e) - 16) % 16 # 0 THEN "ValueError"
    ELSE IF Len(e) = 16 THEN "IndexError"
    ELSE ""

\* the same for encrypt_file and input file p
EncryptFailure(self, p) ==
    IF Absent(self) THEN "AttributeError"
    ELSE IF p = NoFile THEN "FileNotFoundError"
    ELSE ""

(***************************************************************************)
(* C13: errors are terminal and never swallowed.  A decrypt_file call in    *)
(* which a step fails (key derivation, opening the input, the IV length or  *)
(* block alignment checks of the cipher, unpadding) ends by raising one     *)
(* exception that carries the cause of the first failing step; it does not  *)
(* go on to later steps, does not write and does not return normally.  A    *)
(* call returns normally exactly when no step fails.  The same holds for    *)
(* encrypt_file.  One call is one attempt: nothing is retried.              *)
(***************************************************************************)
ErrorsSurfaced ==
    [][\A self \in Inst :
          /\ DecryptStepOf(self) =>
                \E cause \in {DecryptFailure(self, fs.enc)} :
                    /\ dec_call'.cause = cause
                    /\ dec_call'.status = (IF cause = "" THEN "ok" ELSE "raised")
                    /\ cause # "" =>
                          /\ dec_call'.unpadded_data = None
                          /\ dec_call'.written = NoFile
                          /\ fs' = fs
                    /\ cause \in {"ValueError", "IndexError"} =>
                          dec_call'.input = fs.enc
                    /\ cause = "ValueError" => dec_call'.decrypted_data = None
          /\ EncryptStepOf(self) =>
                \E cause \in {EncryptFailure(self, fs.plain)} :
                    /\ enc_call'.cause = cause
                    /\ enc_call'.status = (IF cause = "" THEN "ok" ELSE "raised")
                    /\ cause # "" =>
                          /\ enc_call'.encrypted_data = None
                          /\ enc_call'.written = NoFile
                          /\ fs' = fs]_vars

\* decrypt_file raised on an envelope cut inside its IV and stopped there
ErrorsSurfacedWitness ==
    /\ dec_call.status = "raised"
    /\ dec_call.cause = "ValueError"
    /\ dec_call.input # None
    /\ Len(dec_call.input) = IVLength - 1
    /\ dec_call.decrypted_data = None
    /\ fs.dec = NoFile

\* the key of instance self computed from its two fields alone
KeyOf(self) ==
    PBKDF2HMAC(encode(passphrase[self]), encode(email[self]), Iterations, KeyLength)

\* what encrypt_file writes when it runs alone: a function of the instance's
\* two fields, the input file and the IV
EncryptAlone(self, input, iv) ==
    iv \o CBCEncrypt(KeyOf(self), iv, _pad_data(input))

\* what decrypt_file writes when it runs alone and does not raise
DecryptAlone(self, input) ==
    _unpad_data(CBCDecrypt(KeyOf(self), ReadIV(input), ReadRest(input)))

\* whatever calls came before, a call made now has the outcome of a call
\* that runs alone
AsIfAlone ==
    \A self \in Inst :
        /\ \A iv \in IVs :
              \E r \in {EncryptCall(self, fs.plain, iv)} :
                  /\ r.status = "ok"
                  /\ r.written = EncryptAlone(self, fs.plain, iv)
        /\ fs.enc # NoFile =>
              \E r \in {DecryptCall(self, fs.enc)} :
                  /\ r.status = "ok" => r.written = DecryptAlone(self, fs.enc)
                  /\ r.status = "raised" => r.cause \in {"ValueError", "IndexError"}

MaxFlights == 3     \* flight_results has 0..MaxFlights records

\* FlightResult.generateKey: f"{origin}_{layover}_{destination}_{duration}"
generateKey(origin_airport, layover_airport, destination_airport, duration) ==
    origin_airport \o <<95>> \o layover_airport \o <<95>>
        \o destination_airport \o <<95>> \o duration

\* FlightResult.__init__
FlightResult(outgoing_flight_number, origin_airport, destination_airport, layover_airport, duration, price) ==
    [outgoing_flight_number |-> outgoing_flight_number,
     origin_airport |-> origin_airport,
     destination_airport |-> destination_airport,
     layover_airport |-> layover_airport,
     duration |-> duration,
     price |-> price,
     key |-> generateKey(origin_airport, layover_airport,
                         destination_airport, duration)]

\* faulty variant: the comparison of prices is not strict
PriceLessOrEqual(a, b) == a <= b

\* faulty variant: the comparison of prices is reversed
PriceGreater(a, b) == a > b

\* record.price < lowest_record.price
PriceLess(a, b) == a < b

\* a < b on two str values: by code point, a proper prefix is smaller
RECURSIVE StrLess(_, _)
StrLess(a, b) ==
    IF b = <<>> THEN FALSE
    ELSE IF a = <<>> THEN TRUE
    ELSE IF Head(a) # Head(b) THEN Head(a) < Head(b)
    ELSE StrLess(Tail(a), Tail(b))

\* select_lowest_price_flights, inner loop: for j in range(len(flight_results))
RECURSIVE QuadraticInner(_, _, _, _)
QuadraticInner(fr, i, j, lowest_record) ==
    IF j > Len(fr) THEN lowest_record
    ELSE IF j = i THEN QuadraticInner(fr, i, j + 1, lowest_record)
    ELSE IF fr[j].key = fr[i].key
            /\ PriceLess(fr[j].price, fr[lowest_record].price)
         THEN QuadraticInner(fr, i, j + 1, j)
         ELSE QuadraticInner(fr, i, j + 1, lowest_record)

\* select_lowest_price_flights, outer loop: for i, record in enumerate(...)
RECURSIVE QuadraticOuter(_, _, _, _)
QuadraticOuter(fr, i, result_list, processed_keys) ==
    IF i > Len(fr) THEN result_list
    ELSE IF fr[i].key \in processed_keys
         THEN QuadraticOuter(fr, i + 1, result_list, processed_keys)
         ELSE QuadraticOuter(fr, i + 1,
                             Append(result_list, QuadraticInner(fr, i, 1, i)),
                             processed_keys \cup {fr[i].key})

select_lowest_price_flights(fr) == QuadraticOuter(fr, 1, <<>>, {})

\* a dict is the sequence of its (key, value) items in insertion order;
\* the position of key in it, 0 when key is not in the dict
DictFind(d, key) ==
    IF \E n \in 1..Len(d) : d[n].key = key
    THEN CHOOSE n \in 1..Len(d) : d[n].key = key
    ELSE 0

\* d[key] = value: a new key goes last, an old key keeps its place
DictSet(d, key, value) ==
    IF DictFind(d, key) = 0
    THEN Append(d, [key |-> key, value |-> value])
    ELSE [d EXCEPT ![DictFind(d, key)].value = value]

\* list(d.values())
DictValues(d) == [n \in 1..Len(d) |-> d[n].value]

\* select_lowest_price_flights_map, loop: for record in flight_results
RECURSIVE MapLoop(_, _, _)
MapLoop(fr, i, lowest_price_map) ==
    IF i > Len(fr) THEN lowest_price_map
    ELSE IF DictFind(lowest_price_map, fr[i].key) = 0
            \/ PriceLess(fr[i].price,
                         fr[lowest_price_map[DictFind(lowest_price_map,
                                                      fr[i].key)].value].price)
         THEN MapLoop(fr, i + 1, DictSet(lowest_price_map, fr[i].key, i))
         ELSE MapLoop(fr, i + 1, lowest_price_map)

select_lowest_price_flights_map(fr) == DictValues(MapLoop(fr, 1, <<>>))

\* sorted(): record i goes behind every record already placed whose key is
\* not greater, so equal keys keep their input order (the sort is stable)
RECURSIVE SortedInsert(_, _, _)
SortedInsert(fr, s, i) ==
    IF s = <<>> THEN <<i>>
    ELSE IF StrLess(fr[i].key, fr[Head(s)].key) THEN <<i>> \o s
    ELSE <<Head(s)>> \o SortedInsert(fr, Tail(s), i)

\* sorted(flight_results, key=lambda r: r.key): a new list
RECURSIVE sorted(_, _)
sorted(fr, n) ==
    IF n = 0 THEN <<>> ELSE SortedInsert(fr, sorted(fr, n - 1), n)

\* select_lowest_price_flights_sort_sweep, loop: for record in sorted_flights
\* and the append after the loop
RECURSIVE Sweep(_, _, _, _, _, _)
Sweep(fr, sorted_flights, n, prev_key, lowest_record, result_list) ==
    IF n > Len(sorted_flights)
    THEN IF lowest_record # 0 THEN Append(result_list, lowest_record)
         ELSE result_list
    ELSE IF fr[sorted_flights[n]].key # prev_key
         THEN Sweep(fr, sorted_flights, n + 1, fr[sorted_flights[n]].key,
                    sorted_flights[n],
                    IF lowest_record # 0
                    THEN Append(result_list, lowest_record) ELSE result_list)
         ELSE IF PriceLess(fr[sorted_flights[n]].price, fr[lowest_record].price)
              THEN Sweep(fr, sorted_flights, n + 1, prev_key,
                         sorted_flights[n], result_list)
              ELSE Sweep(fr, sorted_flights, n + 1, prev_key,
                         lowest_record, result_list)

\* lowest_record = None is position 0, prev_key = None is no str
select_lowest_price_flights_sort_sweep(fr) ==
    Sweep(fr, sorted(fr, Len(fr)), 1, None, 0, <<>>)

\* the records of the input: two origins and two durations give four keys,
\* "10" sorts before "2" as text; two prices
Origins == {<<65>>, <<66>>}
Durations == {<<50>>, <<49, 48>>}
Prices == {100, 99}
Flights ==
    {FlightResult(<<70>>, o, <<68>>, <<76>>, d, p) :
        o \in Origins, d \in Durations, p \in Prices}
FlightLists == UNION {[1..n -> Flights] : n \in 0..MaxFlights}

EncryptorIdle ==
    /\ email = [self \in Inst |-> None]
    /\ passphrase = [self \in Inst |-> None]
    /\ fs = [plain |-> NoFile, enc |-> NoFile, dec |-> NoFile]
    /\ enc_call = NoEncCall
    /\ dec_call = NoDecCall
    /\ derived = {}
    /\ pristine = FALSE
    /\ pc = "idle"
    /\ frame = NoFrame

\* result_list, _ = select_lowest_price_flights(flight_results)
Quadratic ==
    /\ selected.quadratic = None
    /\ selected' = [selected EXCEPT
                      !.quadratic = select_lowest_price_flights(flight_results)]
    /\ UNCHANGED <<flight_results, encryptorVars, currencyVars>>

\* result_list, _ = select_lowest_price_flights_map(flight_results)
MapSelect ==
    /\ selected.map = None
    /\ selected' = [selected EXCEPT
                      !.map = select_lowest_price_flights_map(flight_results)]
    /\ UNCHANGED <<flight_results, encryptorVars, currencyVars>>

\* result_list, _ = select_lowest_price_flights_sort_sweep(flight_results)
SortSweep ==
    /\ selected.sort_sweep = None
    /\ selected' = [selected EXCEPT
                      !.sort_sweep =
                          select_lowest_price_flights_sort_sweep(flight_results)]
    /\ UNCHANGED <<flight_results, encryptorVars, currencyVars>>

(***************************************************************************)
(* SpecSelect: a list of up to MaxFlights records, on which each of the     *)
(* three functions is called once, in any order.                            *)
(***************************************************************************)
InitSelect ==
    /\ flight_results \in FlightLists
    /\ selected = NotSelected
    /\ cur = NoRun
    /\ EncryptorIdle

NextSelect ==
    \/ Quadratic
    \/ MapSelect
    \/ SortSweep

SpecSelect == InitSelect /\ [][NextSelect]_vars

\* the keys occurring in a list of records
Keys(fr) == {fr[i].key : i \in 1..Len(fr)}

\* result_list holds records of fr, exactly one for each key of fr, and none
\* of the records of fr with the same key has a lower price
LowestPerKey(fr, result_list) ==
    /\ \A n \in 1..Len(result_list) : result_list[n] \in 1..Len(fr)
    /\ \A k \in Keys(fr) :
          Cardinality({n \in 1..Len(result_list) :
                          fr[result_list[n]].key = k}) = 1
    /\ \A n \in 1..Len(result_list), j \in 1..Len(fr) :
          fr[j].key = fr[result_list[n]].key =>
              fr[result_list[n]].price <= fr[j].price
    /\ fr = <<>> => result_list = <<>>

Functions == {"quadratic", "map", "sort_sweep"}

EarliestLowest(fr, k) ==
    CHOOSE i \in 1..Len(fr) :
        /\ fr[i].key = k
        /\ \A j \in 1..Len(fr) :
              fr[j].key = k =>
                  \/ fr[i].price < fr[j].price
                  \/ fr[i].price = fr[j].price /\ i <= j

\* the position at which key k occurs first in fr
FirstOccurrence(fr, k) ==
    CHOOSE i \in 1..Len(fr) :
        fr[i].key = k /\ \A j \in 1..(i - 1) : fr[j].key # k

\* the record objects of a list
Records(result_list) == {result_list[n] : n \in 1..Len(result_list)}

StripsAnnouncedCount ==
    dec_call.unpadded_data # None =>
        LET data == dec_call.decrypted_data
            p == data[Len(data)]
        IN  /\ Len(dec_call.unpadded_data) = Len(data) - p
            /\ dec_call.unpadded_data = SubSeq(data, 1, Len(data) - p)

(***************************************************************************)
(* C20: no output on failure.  A call of encrypt_file or decrypt_file that  *)
(* raises leaves its output file as it was: not created if it did not       *)
(* exist, not modified if it did; no other file changes either.  A call     *)
(* changes its output file only after it has computed the complete result,  *)
(* and to exactly that result.                                              *)
(***************************************************************************)
NoOutputOnFailure ==
    [][/\ (dec_call' # dec_call /\ dec_call'.status = "raised") =>
             /\ fs'.dec = fs.dec
             /\ fs' = fs
       /\ (enc_call' # enc_call /\ enc_call'.status = "raised") =>
             /\ fs'.enc = fs.enc
             /\ fs' = fs
       /\ fs'.dec # fs.dec =>
             /\ dec_call'.status = "ok"
             /\ dec_call'.unpadded_data # None
             /\ fs'.dec = dec_call'.unpadded_data
       /\ (fs'.enc # fs.enc /\ enc_call' # enc_call) =>
             /\ enc_call'.status = "ok"
             /\ enc_call'.encrypted_data # None
             /\ fs'.enc = enc_call'.iv \o enc_call'.encrypted_data]_vars

\* a decrypt_file call failed on a cut envelope while the output of an
\* earlier, successful call was in place, and that output is still there
NoOutputOnFailureWitness ==
    /\ dec_call.status = "raised"
    /\ dec_call.cause \in {"ValueError", "IndexError"}
    /\ enc_call.status = "ok"
    /\ fs.dec = enc_call.file_data
    /\ Len(fs.dec) > 0

(***************************************************************************)
(* m1fp/currency/currapi/src/main/python/currency_api.py.                   *)
(*                                                                          *)
(* A Decimal is [kind, sign, coeff, exp]: kind "finite" stands for          *)
(* (-1)^sign * coeff * 10^exp, kind "NaN" and "Infinity" for the special    *)
(* values.  An exception is [type, msg, arg], arg the value formatted into  *)
(* the message.  The HTTP exchange is not code of the repository: urlopen   *)
(* returns a response, raises HTTPError with a body, or raises URLError,    *)
(* and the body is described by what json.loads makes of it.                *)
(***************************************************************************)
Letters == (65..90) \cup (97..122)
Digits == 48..57

\* str.upper() / str.lower() on one ASCII character
Lower(c) == IF c \in 65..90 THEN c + 32 ELSE c
LowerStr(s) == [i \in 1..Len(s) |-> Lower(s[i])]

\* CODE_RE.match(code): three letters, then the end of the string or one
\* final newline ('$' matches before it)
CodeMatches(code) ==
    /\ Len(code) \in {3, 4}
    /\ \A i \in 1..3 : code[i] \in Letters
    /\ Len(code) = 4 => code[4] = 10

\* validate_currency_code raises ValueError
ValidateRaises(code) == code = None \/ ~CodeMatches(code)

RECURSIVE DigitsValue(_)
DigitsValue(ds) ==
    IF ds = <<>> THEN 0
    ELSE 10 * DigitsValue(SubSeq(ds, 1, Len(ds) - 1)) + (ds[Len(ds)] - 48)

RECURSIVE NumDigits(_)
NumDigits(n) == IF n < 10 THEN 1 ELSE 1 + NumDigits(n \div 10)

RECURSIVE Pow10(_)
Pow10(n) == IF n = 0 THEN 1 ELSE 10 * Pow10(n - 1)

InvalidDecimal == [kind |-> "invalid", sign |-> 0, coeff |-> 0, exp |-> 0]

(***************************************************************************)
(* Decimal(amount_str), for strings without exponent, underscores or        *)
(* surrounding white space: an optional sign, then "NaN", "Inf" or          *)
(* "Infinity" in any case, or digits with at most one point and at least    *)
(* one digit.  "invalid" stands for decimal.InvalidOperation.               *)
(***************************************************************************)
Decimal(s) ==
    LET signed == s # <<>> /\ s[1] \in {43, 45}
        sign == IF signed /\ s[1] = 45 THEN 1 ELSE 0
        body == IF signed THEN Tail(s) ELSE s
        points == {i \in 1..Len(body) : body[i] = 46}
        point == IF points = {} THEN Len(body) + 1
                 ELSE CHOOSE i \in points : TRUE
        digits == SubSeq(body, 1, point - 1) \o SubSeq(body, point + 1, Len(body))
    IN  IF LowerStr(body) = <<110, 97, 110>>
        THEN [kind |-> "NaN", sign |-> sign, coeff |-> 0, exp |-> 0]
        ELSE IF LowerStr(body) \in {<<105, 110, 102>>,
                                    <<105, 110, 102, 105, 110, 105, 116, 121>>}
        THEN [kind |-> "Infinity", sign |-> sign, coeff |-> 0, exp |-> 0]
        ELSE IF /\ Cardinality(points) <= 1
                /\ digits # <<>>
                /\ \A i \in 1..Len(digits) : digits[i] \in Digits
        THEN [kind |-> "finite", sign |-> sign, coeff |-> DigitsValue(digits),
              exp |-> IF points = {} THEN 0 ELSE point - Len(body)]
        ELSE InvalidDecimal

\* d < 0 for a Decimal that is not a NaN
IsNegative(d) == d.sign = 1 /\ (d.kind = "Infinity" \/ d.coeff # 0)

\* parse_amount(amount_str): the exception it raises or the value it returns.
\* The comparison d < 0 is outside the try block; a comparison involving a
\* NaN signals InvalidOperation, which the default context traps and raises.
parse_amount(amount_str) ==
    LET d == Decimal(amount_str)
    IN  IF d.kind = "invalid"
        THEN [exception |-> [type |-> "ValueError", msg |-> "Invalid amount: ",
                             arg |-> amount_str],
              value |-> NoDecimal]
        ELSE IF d.kind = "NaN"
        THEN [exception |-> [type |-> "InvalidOperation", msg |-> "",
                             arg |-> None],
              value |-> NoDecimal]
        ELSE IF IsNegative(d)
        THEN [exception |-> [type |-> "ValueError",
                             msg |-> "amount must be non-negative", arg |-> None],
              value |-> NoDecimal]
        ELSE [exception |-> NoException, value |-> d]

\* d.quantize(Decimal("0.000001")) raises InvalidOperation: an infinity, or
\* a result of more digits than the context precision of 28
Precision == 28
QuantizeRaises(d) ==
    \/ d.kind = "Infinity"
    \/ d.kind = "finite" /\ d.coeff # 0
         /\ NumDigits(d.coeff) + d.exp + 6 > Precision

\* _normalize_decimal(d) up to the rendering as text: d rounded HALF_UP to
\* six fractional digits; a NaN stays a NaN
_normalize_decimal(d) ==
    IF d.kind # "finite" THEN d
    ELSE IF d.exp >= -6
    THEN [d EXCEPT !.coeff = d.coeff * Pow10(d.exp + 6), !.exp = -6]
    ELSE LET unit == Pow10(-6 - d.exp)
             q == d.coeff \div unit
             r == d.coeff % unit
         IN  [d EXCEPT !.coeff = IF 2 * r >= unit THEN q + 1 ELSE q, !.exp = -6]

\* what json.loads(body) gives
NotJson == "not json"
JsonList == "[1]"
ErrorString == "{error: 'not found'}"
ErrorNumber == "{error: 5}"
NoRates == "{}"
RatesList == "{rates: []}"
RatesOther == "{rates: {GBP: 1.5}}"
RatesText == "{rates: {EUR: 'abc'}}"
RatesNumber == "{rates: {EUR: 1.5}}"
RatesHuge == "{rates: {EUR: 1e30}}"
Bodies == {NotJson, JsonList, ErrorString, ErrorNumber, NoRates, RatesList,
           RatesOther, RatesText, RatesNumber, RatesHuge}

\* the text of the 'error' field of ErrorString: "not found"
ErrorText == <<110, 111, 116, 32, 102, 111, 117, 110, 100>>

\* Decimal(str(val)) for the rate in the body
RateOf(body) ==
    IF body = RatesNumber
    THEN [kind |-> "finite", sign |-> 0, coeff |-> 15, exp |-> -1]
    ELSE [kind |-> "finite", sign |-> 0, coeff |-> 1, exp |-> 30]

StatusOK == 200
Outcomes ==
    {[kind |-> "response", status |-> st, body |-> b] :
        st \in {StatusOK}, b \in Bodies}
    \cup {[kind |-> "response", status |-> 204, body |-> NotJson]}
    \cup {[kind |-> "HTTPError", status |-> 404, body |-> b] :
             b \in {NotJson, JsonList, ErrorString, ErrorNumber, NoRates}}
    \cup {[kind |-> "URLError", status |-> 0, body |-> "none"]}

\* the exception raised inside the inner try of the HTTPError handler (lines
\* 135-139): json.loads fails, data has no .get, or the ValueError of line 139
InnerTryRaises(body) ==
    IF body = NotJson THEN "JSONDecodeError"
    ELSE IF body = JsonList THEN "AttributeError"
    ELSE IF body = ErrorString THEN "ValueError"
    ELSE ""

\* except Exception (line 140) catches every one of them
ExceptException(type) ==
    type \in {"JSONDecodeError", "AttributeError", "ValueError"}

ParseError ==
    [type |-> "ValueError",
     msg |-> "Could not parse conversion result from API response",
     arg |-> None]

\* convert(from_code, to_code, amount) when the HTTP exchange goes as
\* outcome: the exception it raises or the value it returns
convert(from_code, to_code, amount, outcome) ==
    LET raise(e) == [exception |-> e, value |-> NoDecimal, called |-> TRUE]
        early(e) == [exception |-> e, value |-> NoDecimal, called |-> FALSE]
        body == outcome.body
    IN  IF ValidateRaises(from_code)
        THEN early([type |-> "ValueError", msg |-> "Invalid currency code: ",
                    arg |-> from_code])
        ELSE IF ValidateRaises(to_code)
        THEN early([type |-> "ValueError", msg |-> "Invalid currency code: ",
                    arg |-> to_code])
        ELSE IF amount = NoDecimal
        THEN early([type |-> "ValueError", msg |-> "amount must not be null",
                    arg |-> None])
        ELSE IF QuantizeRaises(amount)
        THEN early([type |-> "InvalidOperation", msg |-> "", arg |-> None])
        ELSE IF outcome.kind = "HTTPError"
        THEN IF InnerTryRaises(body) # "" /\ ~ExceptException(InnerTryRaises(body))
             THEN raise([type |-> InnerTryRaises(body), msg |-> "API error: ",
                         arg |-> ErrorText])
             ELSE raise([type |-> "IOError",
                         msg |-> "API request failed with status ",
                         arg |-> <<outcome.status>>])
        ELSE IF outcome.kind = "URLError"
        THEN raise([type |-> "IOError", msg |-> "Network error: ", arg |-> None])
        ELSE IF outcome.status # StatusOK
        THEN raise([type |-> "IOError",
                    msg |-> "API request failed with status ",
                    arg |-> <<outcome.status>>])
        ELSE IF body = NotJson THEN raise(ParseError)
        ELSE IF body = ErrorString
        THEN raise([type |-> "ValueError", msg |-> "API error: ",
                    arg |-> ErrorText])
        ELSE IF body \in {JsonList, ErrorNumber, NoRates, RatesList}
        THEN raise(ParseError)
        ELSE IF body = RatesOther THEN raise(ParseError)
        ELSE IF body = RatesText THEN raise(ParseError)
        ELSE [exception |-> NoException, value |-> RateOf(body), called |-> TRUE]

\* "USD", "eur", "U5D", "US"
CodeStrings == {<<85, 83, 68>>, <<101, 117, 114>>, <<85, 53, 68>>, <<85, 83>>}

\* "1", "1.5", "0.0000005", "-1", "-0", "abc", "", "NaN", "Infinity",
\* "-Infinity"
AmountStrings ==
    {<<49>>, <<49, 46, 53>>, <<48, 46, 48, 48, 48, 48, 48, 48, 53>>,
     <<45, 49>>, <<45, 48>>, <<97, 98, 99>>, <<>>, <<78, 97, 78>>,
     <<73, 110, 102, 105, 110, 105, 116, 121>>,
     <<45, 73, 110, 102, 105, 110, 105, 116, 121>>}

\* sys.argv[1:]: FROM TO AMOUNT, or an argument too few or too many
ArgLists ==
    {<<f, t, a>> : f \in CodeStrings, t \in CodeStrings, a \in AmountStrings}
    \cup {<<>>, <<<<85, 83, 68>>, <<101, 117, 114>>>>,
          <<<<85, 83, 68>>, <<101, 117, 114>>, <<49>>, <<49>>>>}

\* if len(argv) != 3: print the usage and return 0
CheckArgs ==
    /\ cur.pc = "start"
    /\ cur' = IF Len(cur.argv) # 3
              THEN [cur EXCEPT !.printed = "usage", !.exit = 0, !.pc = "returned"]
              ELSE [cur EXCEPT !.pc = "parse"]
    /\ UNCHANGED <<encryptorVars, selectVars>>

\* try: amount = parse_amount(amount_str) / except ValueError: return 1;
\* any other exception leaves main
ParseAmount ==
    /\ cur.pc = "parse"
    /\ \E r \in {parse_amount(cur.argv[3])} :
          cur' = IF r.exception.type = ""
                 THEN [cur EXCEPT !.amount = r.value, !.pc = "convert"]
                 ELSE IF r.exception.type = "ValueError"
                 THEN [cur EXCEPT !.exception = r.exception, !.exit = 1,
                                  !.pc = "returned"]
                 ELSE [cur EXCEPT !.exception = r.exception, !.pc = "raised"]
    /\ UNCHANGED <<encryptorVars, selectVars>>

\* try: converted = convert(from_code, to_code, amount) / except Exception:
\* return 1
Convert ==
    /\ cur.pc = "convert"
    /\ \E outcome \in Outcomes :
          \E r \in {convert(cur.argv[1], cur.argv[2], cur.amount, outcome)} :
             cur' = IF r.exception.type = ""
                    THEN [cur EXCEPT !.converted = r.value, !.outcome = outcome,
                                     !.pc = "print"]
                    ELSE [cur EXCEPT !.exception = r.exception,
                                     !.outcome = IF r.called THEN outcome
                                                 ELSE NoOutcome,
                                     !.exit = 1, !.pc = "returned"]
    /\ UNCHANGED <<encryptorVars, selectVars>>

\* lines 206-209, outside any try: normalize both amounts, print, return 0
PrintLine ==
    /\ cur.pc = "print"
    /\ cur' = IF QuantizeRaises(cur.amount) \/ QuantizeRaises(cur.converted)
              THEN [cur EXCEPT !.exception = [type |-> "InvalidOperation",
                                              msg |-> "", arg |-> None],
                               !.pc = "raised"]
              ELSE [cur EXCEPT !.printed = "conversion", !.exit = 0,
                               !.pc = "returned"]
    /\ UNCHANGED <<encryptorVars, selectVars>>

(***************************************************************************)
(* SpecCurrency: one run of main(argv) of currency_api.py.                  *)
(***************************************************************************)
InitCurrency ==
    /\ \E argv \in ArgLists : cur = [NoRun EXCEPT !.pc = "start", !.argv = argv]
    /\ flight_results = <<>>
    /\ selected = NotSelected
    /\ EncryptorIdle

NextCurrency ==
    \/ CheckArgs
    \/ ParseAmount
    \/ Convert
    \/ PrintLine

SpecCurrency == InitCurrency /\ [][NextCurrency]_vars

\* the HTTP call failed with an error status and a JSON body whose 'error'
\* field is a string
ParseableApiError ==
    cur.outcome.kind = "HTTPError" /\ cur.outcome.body = ErrorString

(***************************************************************************)
(* C16: API error mapping in convert.  When the HTTP call fails with an     *)
(* HTTP error status and the body is JSON with a string 'error' field,      *)
(* convert raises ValueError with the message 'API error: <msg>'; when      *)
(* convert raises IOError, the call failed with an HTTP status error        *)
(* without such a parseable error, or at the network level.                 *)
(***************************************************************************)
ApiErrorMapped ==
    /\ ParseableApiError =>
          /\ cur.exception.type = "ValueError"
          /\ cur.exception.msg = "API error: "
          /\ cur.exception.arg = ErrorText
    /\ cur.exception.type = "IOError" =>
          /\ cur.outcome.kind \in {"HTTPError", "URLError", "response"}
          /\ ~ParseableApiError

\* the run of main ended: it returned, or an exception left it
Ended == cur.pc \in {"returned", "raised"}

\* parse_amount rejects the amount string of the run
AmountRejected ==
    Len(cur.argv) = 3 /\ parse_amount(cur.argv[3]).exception.type # ""

(***************************************************************************)
(* C17: CLI exit status of currency_api.main.  Every run of main ends by    *)
(* returning an exit status: 0 when the argument count is not 3; 1 when     *)
(* parse_amount rejects the amount string or convert fails; 0 with three    *)
(* arguments only after the conversion line has been printed.  parse_amount *)
(* signals every amount string it rejects as ValueError.                    *)
(***************************************************************************)
ExitStatus ==
    Ended =>
          /\ cur.pc = "returned"
          /\ cur.exit \in {0, 1}
          /\ Len(cur.argv) # 3 => cur.exit = 0
          /\ AmountRejected => cur.exit = 1
          /\ (Len(cur.argv) = 3 /\ cur.exception.type # "") => cur.exit = 1
          /\ (Len(cur.argv) = 3 /\ cur.exit = 0) => cur.printed = "conversion"
          /\ AmountRejected =>
                parse_amount(cur.argv[3]).exception.type = "ValueError"

\* an envelope that is an IV and nothing else: both length checks of the
\* format pass (16 bytes are there, the empty ciphertext is block aligned)
IVOnly(e) == e # NoFile /\ Len(e) = IVLength

(***************************************************************************)
(* C21: IV-only envelope.  A decrypt_file call, by an instance that has an  *)
(* email and a passphrase, on an envelope of exactly 16 bytes reads the IV  *)
(* and an empty ciphertext, decrypts it to empty data, fails at unpadding   *)
(* (IndexError, wrapped as the decryption error), produces no plaintext     *)
(* and leaves every file as it was.  No envelope encrypt_file has written   *)
(* has this length: the shortest has 32 bytes.                              *)
(***************************************************************************)
IVOnlyRejected ==
    /\ [](enc_call.status = "ok" =>
             /\ ~IVOnly(enc_call.written)
             /\ Len(enc_call.written) >= IVLength + BlockSize)
    /\ [][\A self \in Inst :
             (IVOnly(fs.enc) /\ ~Absent(self) /\ DecryptStepOf(self)) =>
                 /\ dec_call'.input = fs.enc
                 /\ dec_call'.iv = fs.enc
                 /\ dec_call'.encrypted_data = <<>>
                 /\ dec_call'.decrypted_data = <<>>
                 /\ dec_call'.status = "raised"
                 /\ dec_call'.cause = "IndexError"
                 /\ dec_call'.unpadded_data = None
                 /\ dec_call'.written = NoFile
                 /\ fs' = fs]_vars

\* decrypt_file failed at unpadding on the envelope of an empty plaintext cut
\* down to its IV; no output file exists
IVOnlyRejectedWitness ==
    /\ dec_call.status = "raised"
    /\ dec_call.cause = "IndexError"
    /\ IVOnly(dec_call.input)
    /\ fs.enc = dec_call.input
    /\ enc_call.status = "ok"
    /\ enc_call.file_data = <<>>
    /\ dec_call.iv = enc_call.iv
    /\ fs.dec = NoFile

====
